---- MODULE Spec2Model ----
(***************************************************************************)
(* Model of BallistaFlightService (flight_service.rs): the do_get request  *)
(* handler (Execute / FetchShuffle / InteractiveQuery), the task status    *)
(* map, the ConcurrencyGuard and the background runner thread spawned on   *)
(* first admission of a task key.  Handlers and runners are processes; the *)
(* two std::sync::Mutex locks are modelled with an owner each.  Spec is    *)
(* do_get with its runners; ServiceSpec adds the FlightService methods     *)
(* that share no state with do_get (get_flight_info, handshake,            *)
(* list_flights, do_put, do_action, list_actions, do_exchange).            *)
(***************************************************************************)
EXTENDS Integers, Sequences, FiniteSets, TLC

\* ------------------------------------------------------------------ bounds
NumHandlers == 2        \* concurrent do_get requests in flight
NumTasks == 2           \* distinct task keys the callers use
MaxLimit == 2           \* max_concurrency is drawn from 0..MaxLimit
MaxBatches == 1         \* a stored partition holds 0..MaxBatches batches
NumErrors == 2          \* distinct execution errors do_task may return
UsizeBits == 8          \* width of usize, scaled down (wrapping of 0 - 1)
MaxPolls == 2           \* answers to Completed polls remembered per key

Handlers == 1..NumHandlers
Keys == 1..NumTasks
UsizeModulus == 2 ^ UsizeBits

\* ------------------------------------------------------------- data model
\* enum TaskStatus, and the None of HashMap::get
NoStatus == [tag |-> "None", arg |-> <<>>]
Running == [tag |-> "Running", arg |-> <<>>]
Completed(shuffle_id) == [tag |-> "Completed", arg |-> shuffle_id]
Failed(reason) == [tag |-> "Failed", arg |-> reason]

\* BallistaError values and their {:?} rendering
ExecErrors == {[variant |-> "General", detail |-> i] : i \in 1..NumErrors}
DecodeError == [variant |-> "General", detail |-> 0]
DebugFmt(e) == <<e.variant, e.detail>>

\* Schema::new(vec![Field::new("shuffle_id", DataType::Utf8, false)])
ShuffleIdSchema == <<[name |-> "shuffle_id", type |-> "Utf8", nullable |-> FALSE]>>
\* a schema a task's output may have
TaskSchema == <<[name |-> "c0", type |-> "Int64", nullable |-> TRUE]>>
Schemas == {ShuffleIdSchema, TaskSchema}

\* ShufflePartition { schema, data }: batches are numbered in stored order
Partitions == {[schema |-> s, data |-> [i \in 1..n |-> i]] : s \in Schemas, n \in 0..MaxBatches}
NoPartition == [schema |-> <<>>, data |-> <<>>]

\* the executor names the output of task key k by one shuffle id
ShuffleIdOf(k) == <<"shuffle", k>>
ShuffleIds == {ShuffleIdOf(k) : k \in Keys}

\* FlightData::from(&Schema) and FlightData::from(&RecordBatch)
FlightDataFromSchema(schema) == [header |-> "Schema", schema |-> schema, body |-> <<>>]
FlightDataFromBatch(batch) == [header |-> "RecordBatch", schema |-> <<>>, body |-> <<batch>>]

\* the stream of a result: the schema message, then one message per batch
flights(results) ==
  <<FlightDataFromSchema(results.schema)>>
    \o [i \in 1..Len(results.data) |-> FlightDataFromBatch(results.data[i])]

\* tonic responses: Err(Status::code(message)) or Ok(Response(stream))
Status(code, msg) == [code |-> code, msg |-> msg, stream |-> <<>>]
OkStream(results) == [code |-> "Ok", msg |-> <<>>, stream |-> flights(results)]
\* a handler whose thread panicked answers nothing
Panicked == [code |-> "Panic", msg |-> <<>>, stream |-> <<>>]

to_tonic_err(e) == Status("Internal", DebugFmt(e))

\* tickets and decode_protobuf
Actions ==
  {[kind |-> "Execute", key |-> k] : k \in Keys}
    \cup {[kind |-> "FetchShuffle", key |-> k] : k \in Keys}
    \cup {[kind |-> "InteractiveQuery", key |-> 0]}
NoAction == [kind |-> "None", key |-> 0]
Tickets == {<<a.kind, a.key>> : a \in Actions} \cup {<<"garbage", 0>>}
decode_protobuf(ticket) ==
  IF [kind |-> ticket[1], key |-> ticket[2]] \in Actions
    THEN [ok |-> TRUE, action |-> [kind |-> ticket[1], key |-> ticket[2]], err |-> DecodeError]
    ELSE [ok |-> FALSE, action |-> NoAction, err |-> DecodeError]

\* ------------------------------------------------------- ConcurrencyGuard
\* variant: the comparison admits one task too many
incOffByOne(level, max) ==
  IF level <= max
    THEN [ok |-> TRUE, level |-> level + 1]
    ELSE [ok |-> FALSE, level |-> level]

\* variant: increment first, compare after, no rollback on rejection
incBeforeCheck(level, max) ==
  IF level + 1 <= max
    THEN [ok |-> TRUE, level |-> level + 1]
    ELSE [ok |-> FALSE, level |-> level + 1]

inc(level, max) ==
  IF level < max
    THEN [ok |-> TRUE, level |-> level + 1]
    ELSE [ok |-> FALSE, level |-> level]

\* variant: the release is forgotten
decForgotten(level) == {[panic |-> FALSE, level |-> level]}

\* concurrency_level -= 1: at 0 a debug build panics on the overflow check
\* and a release build wraps; both outcomes are kept.
dec(level) ==
  IF level > 0
    THEN {[panic |-> FALSE, level |-> level - 1]}
    ELSE {[panic |-> TRUE, level |-> level],
          [panic |-> FALSE, level |-> (level - 1) % UsizeModulus]}

\* ------------------------------------------------------------------ state
VARIABLES
  max_concurrency,      \* ConcurrencyGuard.max_concurrency
  concurrency_level,    \* ConcurrencyGuard.concurrency_level
  task_status_map,      \* HashMap<String, TaskStatus>, NoStatus for absent keys
  map_lock,             \* owner of the task_status_map mutex
  guard_lock,           \* owner of the concurrent_tasks mutex
  map_poisoned,         \* a thread panicked while holding the map mutex
  guard_poisoned,       \* a thread panicked while holding the guard mutex
  handlers,             \* per request in flight: pc, decoded action, status read
  runners,              \* spawned threads in spawn order: key, pc, do_task result
  shuffle_store,        \* the executor's stored output per shuffle id
  response,             \* the answer that left do_get in the step just taken
  inc_count,            \* history: successful counter.inc() per key
  insert_count,         \* history: map.insert(key, Running) per key
  dec_at_zero,          \* history: dec() was executed with concurrency_level = 0
  delivered             \* history: the streams answered to Completed polls, per key,
                        \* in order; beyond MaxPolls the newest replaces the last

vars == <<max_concurrency, concurrency_level, task_status_map, map_lock, guard_lock,
          map_poisoned, guard_poisoned, handlers, runners, shuffle_store, response,
          inc_count, insert_count, dec_at_zero, delivered>>

guard_vars == <<max_concurrency, concurrency_level, guard_lock, guard_poisoned, dec_at_zero>>
map_vars == <<task_status_map, map_lock, map_poisoned>>
hist_vars == <<inc_count, insert_count, delivered>>

Free == <<"free", 0>>
H(h) == <<"handler", h>>
R(r) == <<"runner", r>>

\* spawned threads are numbered in spawn order
RunnerIds == 1..(NumTasks + NumHandlers)

\* the Result of do_task held by a runner
NoResult == [tag |-> "None", shuffle_id |-> <<>>, err |-> DecodeError]
OkResult(shuffle_id) == [tag |-> "Ok", shuffle_id |-> shuffle_id, err |-> DecodeError]
ErrResult(e) == [tag |-> "Err", shuffle_id |-> <<>>, err |-> e]
IdleHandler == [pc |-> "idle", action |-> NoAction, seen |-> NoStatus]
NoResponse ==
  [rpc |-> "none", action |-> NoAction, seen |-> NoStatus, admitted |-> FALSE,
   code |-> "None", msg |-> <<>>, stream |-> <<>>]

\* BallistaFlightService::new(executor, max_concurrency)
Init ==
  /\ max_concurrency \in 0..MaxLimit
  /\ concurrency_level = 0
  /\ task_status_map = [k \in Keys |-> NoStatus]
  /\ map_lock = Free
  /\ guard_lock = Free
  /\ map_poisoned = FALSE
  /\ guard_poisoned = FALSE
  /\ handlers = [h \in Handlers |-> IdleHandler]
  /\ runners = <<>>
  /\ shuffle_store = [s \in ShuffleIds |-> NoPartition]
  /\ response = NoResponse
  /\ inc_count = [k \in Keys |-> 0]
  /\ insert_count = [k \in Keys |-> 0]
  /\ dec_at_zero = FALSE
  /\ delivered = [k \in Keys |-> <<>>]

Remember(history, stream) ==
  IF Len(history) < MaxPolls
    THEN Append(history, stream)
    ELSE Append(SubSeq(history, 1, MaxPolls - 1), stream)

Goto(h, pc) == [handlers EXCEPT ![h].pc = pc]

\* the method `rpc` returns `resp` for the decoded action; the request is over
AnswerRpc(h, rpc, action, resp) ==
  /\ response' = [rpc |-> rpc, action |-> action, seen |-> handlers[h].seen,
                  admitted |-> handlers[h].pc = "started",
                  code |-> resp.code, msg |-> resp.msg, stream |-> resp.stream]
  /\ handlers' = [handlers EXCEPT ![h] = IdleHandler]

\* do_get returns `resp` for the action of handler h
Answer(h, action, resp) == AnswerRpc(h, "do_get", action, resp)

\* a step that answers no request
Quiet == response' = NoResponse

\* -------------------------------------------------------- do_get: decode
\* lines 108-110: the ticket does not decode; the error is mapped and returned
DecodeFail(h) ==
  /\ handlers[h].pc = "idle"
  /\ \E ticket \in Tickets :
       LET d == decode_protobuf(ticket) IN
       /\ ~d.ok
       /\ Answer(h, NoAction, to_tonic_err(d.err))
  /\ UNCHANGED <<guard_vars, map_vars, runners, shuffle_store, hist_vars>>

\* lines 108-116: the ticket decodes to Execute(task); key = task.key()
Execute(h) ==
  /\ handlers[h].pc = "idle"
  /\ \E ticket \in Tickets :
       LET d == decode_protobuf(ticket) IN
       /\ d.ok
       /\ d.action.kind = "Execute"
       /\ handlers' = [handlers EXCEPT ![h] = [pc |-> "lock_map", action |-> d.action,
                                               seen |-> NoStatus]]
  /\ Quiet
  /\ UNCHANGED <<guard_vars, map_vars, runners, shuffle_store, hist_vars>>

\* ----------------------------------------------------- do_get: Execute
\* variant: no mutual exclusion (the lock is dropped between get and insert)
CanLockAlways(lock) == TRUE

\* Mutex::lock returns only when no other thread holds the mutex
CanLock(lock) == lock = Free

\* variant: a Failed key is admitted again
BranchRetryFailed(seen) == IF seen.tag \in {"None", "Failed"} THEN "lock_guard" ELSE "poll"

\* lines 118-119, 169: match map.get(&key) { None => admit, Some(status) => answer }
Branch(seen) == IF seen = NoStatus THEN "lock_guard" ELSE "poll"

\* lines 116-118: let mut map = self.task_status_map.lock().unwrap();
\* match map.get(&key).  The guard lives until the end of the Execute arm.
LockMap(h) ==
  /\ handlers[h].pc = "lock_map"
  /\ CanLock(map_lock)
  /\ IF map_poisoned
       THEN /\ Answer(h, handlers[h].action, Panicked)
            /\ UNCHANGED map_lock
       ELSE LET seen == task_status_map[handlers[h].action.key] IN
            /\ map_lock' = H(h)
            /\ handlers' = [handlers EXCEPT ![h].seen = seen, ![h].pc = Branch(seen)]
            /\ Quiet
  /\ UNCHANGED <<guard_vars, task_status_map, map_poisoned, runners, shuffle_store, hist_vars>>

\* line 121: let mut counter = self.concurrent_tasks.lock().unwrap();
LockGuard(h) ==
  /\ handlers[h].pc = "lock_guard"
  /\ CanLock(guard_lock)
  /\ IF guard_poisoned
       THEN /\ Answer(h, handlers[h].action, Panicked)
            /\ map_lock' = Free
            /\ map_poisoned' = TRUE
            /\ UNCHANGED guard_lock
       ELSE /\ guard_lock' = H(h)
            /\ handlers' = Goto(h, "inc")
            /\ Quiet
            /\ UNCHANGED <<map_lock, map_poisoned>>
  /\ UNCHANGED <<max_concurrency, concurrency_level, guard_poisoned, dec_at_zero,
                 task_status_map, runners, shuffle_store, hist_vars>>

\* lines 122-123: counter.inc()?; the counter guard is dropped at the end of
\* its block, and an Err returns from do_get, dropping the map guard too.
Inc(h) ==
  /\ handlers[h].pc = "inc"
  /\ LET key == handlers[h].action.key
         res == inc(concurrency_level, max_concurrency) IN
     /\ concurrency_level' = res.level
     /\ guard_lock' = Free
     /\ IF res.ok
          THEN /\ handlers' = Goto(h, "insert")
               /\ Quiet
               /\ inc_count' = [inc_count EXCEPT ![key] = @ + 1]
               /\ UNCHANGED map_lock
          ELSE /\ Answer(h, handlers[h].action,
                         Status("ResourceExhausted", <<"too many concurrent tasks">>))
               /\ map_lock' = Free
               /\ UNCHANGED inc_count
  /\ UNCHANGED <<max_concurrency, guard_poisoned, dec_at_zero, task_status_map, map_poisoned,
                 runners, shuffle_store, insert_count, delivered>>

\* line 127: map.insert(key.clone(), TaskStatus::Running);
Insert(h) ==
  /\ handlers[h].pc = "insert"
  /\ LET key == handlers[h].action.key IN
     /\ task_status_map' = [task_status_map EXCEPT ![key] = Running]
     /\ insert_count' = [insert_count EXCEPT ![key] = @ + 1]
  /\ handlers' = Goto(h, "spawn")
  /\ Quiet
  /\ UNCHANGED <<guard_vars, map_lock, map_poisoned, runners, shuffle_store, inc_count, delivered>>

\* lines 129-165: thread::spawn(move || smol::run(async { ... }))
NewRunner(key) == [key |-> key, pc |-> "do_task", result |-> NoResult, decs |-> 0]

Spawn(h) ==
  /\ handlers[h].pc = "spawn"
  /\ runners' = Append(runners, NewRunner(handlers[h].action.key))
  /\ handlers' = Goto(h, "started")
  /\ Quiet
  /\ UNCHANGED <<guard_vars, map_vars, shuffle_store, hist_vars>>

\* variant: the handler answers only once the task it spawned has left do_task
StartedAfterTask(h) ==
  /\ handlers[h].pc = "started"
  /\ \A r \in DOMAIN runners :
       runners[r].key = handlers[h].action.key => runners[r].pc # "do_task"
  /\ Answer(h, handlers[h].action, Status("AlreadyExists", <<"task is now running">>))
  /\ map_lock' = Free
  /\ UNCHANGED <<guard_vars, task_status_map, map_poisoned, runners, shuffle_store, hist_vars>>

\* lines 166-168: Err(Status::already_exists("task is now running")); the
\* map guard is dropped as the Execute arm ends.
Started(h) ==
  /\ handlers[h].pc = "started"
  /\ Answer(h, handlers[h].action, Status("AlreadyExists", <<"task is now running">>))
  /\ map_lock' = Free
  /\ UNCHANGED <<guard_vars, task_status_map, map_poisoned, runners, shuffle_store, hist_vars>>

\* variant: the partition stored under the handle is answered
CompletedResultsStored(shuffle_id) == shuffle_store[shuffle_id]

\* variant: one batch per task completed so far
CompletedResultsAll(shuffle_id) ==
  [schema |-> ShuffleIdSchema,
   data |-> [i \in 1..Cardinality({k \in Keys : task_status_map[k].tag = "Completed"}) |-> i]]

\* lines 183-190: the results written for a Completed task
CompletedResults(shuffle_id) == [schema |-> ShuffleIdSchema, data |-> <<>>]

\* lines 169-207: the answer to a key found in the map
PollResponse(status) ==
  CASE status.tag = "Failed" -> Status("Aborted", status.arg)
    [] status.tag = "Running" -> Status("AlreadyExists", <<"task is still running">>)
    [] OTHER -> OkStream(CompletedResults(status.arg))

\* variant: a poll that reports a terminal status removes the entry
PollEvicts(h) ==
  /\ handlers[h].pc = "poll"
  /\ LET key == handlers[h].action.key
         resp == PollResponse(handlers[h].seen) IN
     /\ Answer(h, handlers[h].action, resp)
     /\ delivered' = IF handlers[h].seen.tag = "Completed"
                       THEN [delivered EXCEPT ![key] = Remember(@, resp.stream)]
                       ELSE delivered
     /\ task_status_map' = IF handlers[h].seen.tag \in {"Completed", "Failed"}
                             THEN [task_status_map EXCEPT ![key] = NoStatus]
                             ELSE task_status_map
  /\ map_lock' = Free
  /\ UNCHANGED <<guard_vars, map_poisoned, runners, shuffle_store, inc_count, insert_count>>

Poll(h) ==
  /\ handlers[h].pc = "poll"
  /\ LET key == handlers[h].action.key
         resp == PollResponse(handlers[h].seen) IN
     /\ Answer(h, handlers[h].action, resp)
     /\ delivered' = IF handlers[h].seen.tag = "Completed"
                       THEN [delivered EXCEPT ![key] = Remember(@, resp.stream)]
                       ELSE delivered
  /\ map_lock' = Free
  /\ UNCHANGED <<guard_vars, task_status_map, map_poisoned, runners, shuffle_store,
                 inc_count, insert_count>>

\* ------------------------------- do_get: FetchShuffle, InteractiveQuery
\* Executor::collect(shuffle_id): the stored partition, or an error
MissingShuffle == [variant |-> "General", detail |-> NumErrors + 1]
collect(shuffle_id) ==
  IF shuffle_store[shuffle_id] = NoPartition
    THEN [ok |-> FALSE, results |-> NoPartition, err |-> MissingShuffle]
    ELSE [ok |-> TRUE, results |-> shuffle_store[shuffle_id], err |-> MissingShuffle]

\* variant: the fetch consults the status map and the guard as Execute does
FetchShuffleAdmitted(h) ==
  /\ handlers[h].pc = "idle"
  /\ CanLock(map_lock)
  /\ \E ticket \in Tickets :
       LET d == decode_protobuf(ticket)
           res == collect(ShuffleIdOf(d.action.key)) IN
       /\ d.ok
       /\ d.action.kind = "FetchShuffle"
       /\ Answer(h, d.action,
                 IF task_status_map[d.action.key] = Running
                   THEN Status("AlreadyExists", <<"task is still running">>)
                 ELSE IF ~inc(concurrency_level, max_concurrency).ok
                   THEN Status("ResourceExhausted", <<"too many concurrent tasks">>)
                 ELSE IF res.ok THEN OkStream(res.results) ELSE to_tonic_err(res.err))
  /\ UNCHANGED <<guard_vars, map_vars, runners, shuffle_store, hist_vars>>

\* lines 108-110, 210-230: the ticket decodes to FetchShuffle(shuffle_id)
FetchShuffle(h) ==
  /\ handlers[h].pc = "idle"
  /\ \E ticket \in Tickets :
       LET d == decode_protobuf(ticket)
           res == collect(ShuffleIdOf(d.action.key)) IN
       /\ d.ok
       /\ d.action.kind = "FetchShuffle"
       /\ Answer(h, d.action, IF res.ok THEN OkStream(res.results) ELSE to_tonic_err(res.err))
  /\ UNCHANGED <<guard_vars, map_vars, runners, shuffle_store, hist_vars>>

\* Executor::execute_query(plan).await: the plan's result set, or an error
QueryOutput == [schema |-> TaskSchema, data |-> [i \in 1..MaxBatches |-> i]]
QueryResults ==
  {[ok |-> TRUE, results |-> QueryOutput, err |-> MissingShuffle]}
    \cup {[ok |-> FALSE, results |-> NoPartition, err |-> e] : e \in ExecErrors}

\* lines 108-110, 231-252: the ticket decodes to InteractiveQuery { plan }
InteractiveQuery(h) ==
  /\ handlers[h].pc = "idle"
  /\ \E ticket \in Tickets, res \in QueryResults :
       LET d == decode_protobuf(ticket) IN
       /\ d.ok
       /\ d.action.kind = "InteractiveQuery"
       /\ Answer(h, d.action, IF res.ok THEN OkStream(res.results) ELSE to_tonic_err(res.err))
  /\ UNCHANGED <<guard_vars, map_vars, runners, shuffle_store, hist_vars>>

\* ------------------------------------------ the other FlightService methods
\* the action kind a payload decoded to (the answer does not depend on more)
KindOnly(action) == [kind |-> action.kind, key |-> 0]

\* create_physical_plan, ensure_requirements, create_job: each returns its
\* product or an error; `?` returns the first error
PlanStages == {"create_physical_plan", "ensure_requirements", "create_job"}
PlanError == [variant |-> "General", detail |-> NumErrors + 2]
Planned == [ok |-> TRUE, err |-> PlanError]
NotPlanned == [ok |-> FALSE, err |-> PlanError]
StageResults == {Planned, NotPlanned}
RunStages(results) ==
  IF ~results["create_physical_plan"].ok THEN results["create_physical_plan"]
  ELSE IF ~results["ensure_requirements"].ok THEN results["ensure_requirements"]
  ELSE results["create_job"]

\* lines 276-328: get_flight_info
GetFlightInfoResponse(d, job) ==
  IF ~d.ok THEN to_tonic_err(d.err)
  ELSE IF d.action.kind = "InteractiveQuery"
    THEN IF job.ok THEN Status("InvalidArgument", <<"not implemented yet">>)
                   ELSE to_tonic_err(job.err)
  ELSE Status("InvalidArgument", <<"Invalid action">>)

GetFlightInfo(h) ==
  /\ handlers[h].pc = "idle"
  /\ \E cmd \in Tickets :
       LET d == decode_protobuf(cmd) IN
       IF d.ok /\ d.action.kind = "InteractiveQuery"
         THEN \E results \in [PlanStages -> StageResults] :
                AnswerRpc(h, "get_flight_info", KindOnly(d.action),
                          GetFlightInfoResponse(d, RunStages(results)))
         ELSE AnswerRpc(h, "get_flight_info", KindOnly(d.action),
                        GetFlightInfoResponse(d, NotPlanned))
  /\ UNCHANGED <<guard_vars, map_vars, runners, shuffle_store, hist_vars>>

\* Err(Status::unimplemented("Not yet implemented"))
NotYetImplemented == Status("Unimplemented", <<"Not yet implemented">>)

\* lines 330-335: handshake
Handshake(h) ==
  /\ handlers[h].pc = "idle"
  /\ AnswerRpc(h, "handshake", NoAction, NotYetImplemented)
  /\ UNCHANGED <<guard_vars, map_vars, runners, shuffle_store, hist_vars>>

\* lines 337-342: list_flights
ListFlights(h) ==
  /\ handlers[h].pc = "idle"
  /\ AnswerRpc(h, "list_flights", NoAction, NotYetImplemented)
  /\ UNCHANGED <<guard_vars, map_vars, runners, shuffle_store, hist_vars>>

\* the request stream of do_put: each item is data, or the Status the
\* transport failed with
StreamFailure == Status("Cancelled", <<"stream">>)
PutItems == {[ok |-> TRUE, status |-> StreamFailure], [ok |-> FALSE, status |-> StreamFailure]}
PutStreams == {<<>>} \cup {<<i>> : i \in PutItems}
RECURSIVE DoPutResponse(_, _)
DoPutResponse(request, i) ==
  IF i > Len(request) THEN NotYetImplemented
  ELSE IF ~request[i].ok THEN request[i].status
  ELSE DoPutResponse(request, i + 1)

\* lines 344-358: do_put
DoPut(h) ==
  /\ handlers[h].pc = "idle"
  /\ \E request \in PutStreams :
       AnswerRpc(h, "do_put", NoAction, DoPutResponse(request, 1))
  /\ UNCHANGED <<guard_vars, map_vars, runners, shuffle_store, hist_vars>>

\* lines 360-370: do_action decodes the body and then runs unimplemented!(),
\* which panics
DoActionResponse(d) == IF ~d.ok THEN to_tonic_err(d.err) ELSE Panicked

DoAction(h) ==
  /\ handlers[h].pc = "idle"
  /\ \E body \in Tickets :
       LET d == decode_protobuf(body) IN
       AnswerRpc(h, "do_action", NoAction, DoActionResponse(d))
  /\ UNCHANGED <<guard_vars, map_vars, runners, shuffle_store, hist_vars>>

\* lines 388-393: list_actions
ListActions(h) ==
  /\ handlers[h].pc = "idle"
  /\ AnswerRpc(h, "list_actions", NoAction, NotYetImplemented)
  /\ UNCHANGED <<guard_vars, map_vars, runners, shuffle_store, hist_vars>>

\* lines 395-400: do_exchange
DoExchange(h) ==
  /\ handlers[h].pc = "idle"
  /\ AnswerRpc(h, "do_exchange", NoAction, NotYetImplemented)
  /\ UNCHANGED <<guard_vars, map_vars, runners, shuffle_store, hist_vars>>

\* ------------------------------------------------- the spawned runner
SetRunner(r, pc) == [runners EXCEPT ![r].pc = pc]
Spawned(r) == r \in DOMAIN runners

\* variant: tasks finish in the order they were spawned (one worker queue)
DoTaskOkInOrder(r) ==
  /\ Spawned(r)
  /\ runners[r].pc = "do_task"
  /\ \A q \in 1..(r - 1) : runners[q].pc # "do_task"
  /\ \E p \in Partitions :
       LET sid == ShuffleIdOf(runners[r].key) IN
       /\ shuffle_store' = [shuffle_store EXCEPT ![sid] = p]
       /\ runners' = [runners EXCEPT ![r].pc = "lock_map",
                                     ![r].result = OkResult(sid)]
  /\ Quiet
  /\ UNCHANGED <<guard_vars, map_vars, handlers, hist_vars>>

\* line 139-140: executor.do_task(&task).await returns Ok(shuffle_id); the
\* executor has stored the task's output under that shuffle id
DoTaskOk(r) ==
  /\ Spawned(r)
  /\ runners[r].pc = "do_task"
  /\ \E p \in Partitions :
       LET sid == ShuffleIdOf(runners[r].key) IN
       /\ shuffle_store' = [shuffle_store EXCEPT ![sid] = p]
       /\ runners' = [runners EXCEPT ![r].pc = "lock_map",
                                     ![r].result = OkResult(sid)]
  /\ Quiet
  /\ UNCHANGED <<guard_vars, map_vars, handlers, hist_vars>>

\* variant: an Err of do_task leaves the closure at once (as with `?`),
\* skipping the status update and the release
DoTaskErrExits(r) ==
  /\ Spawned(r)
  /\ runners[r].pc = "do_task"
  /\ \E e \in ExecErrors :
       runners' = [runners EXCEPT ![r].pc = "finished",
                                  ![r].result = ErrResult(e)]
  /\ Quiet
  /\ UNCHANGED <<guard_vars, map_vars, handlers, shuffle_store, hist_vars>>

\* lines 139, 151: executor.do_task(&task).await returns Err(e)
DoTaskErr(r) ==
  /\ Spawned(r)
  /\ runners[r].pc = "do_task"
  /\ \E e \in ExecErrors :
       runners' = [runners EXCEPT ![r].pc = "lock_map",
                                  ![r].result = ErrResult(e)]
  /\ Quiet
  /\ UNCHANGED <<guard_vars, map_vars, handlers, shuffle_store, hist_vars>>

\* line 136-139: do_task panics; the closure unwinds and the thread ends
\* (nothing catches the panic, nothing joins the thread)
DoTaskPanic(r) ==
  /\ Spawned(r)
  /\ runners[r].pc = "do_task"
  /\ runners' = SetRunner(r, "panicked")
  /\ Quiet
  /\ UNCHANGED <<guard_vars, map_vars, handlers, shuffle_store, hist_vars>>

\* variant: the runner locks the counter first and the map second
RunnerLocksCounterFirst(r) ==
  /\ Spawned(r)
  /\ runners[r].pc = "lock_map"
  /\ IF guard_lock # R(r)
       THEN /\ CanLock(guard_lock)
            /\ guard_lock' = R(r)
            /\ UNCHANGED <<map_lock, runners>>
       ELSE /\ CanLock(map_lock)
            /\ map_lock' = R(r)
            /\ runners' = SetRunner(r, "insert")
            /\ UNCHANGED guard_lock
  /\ Quiet
  /\ UNCHANGED <<max_concurrency, concurrency_level, guard_poisoned, dec_at_zero,
                 task_status_map, map_poisoned, handlers, shuffle_store, hist_vars>>

\* lines 146, 158: let mut map = map.lock().unwrap();
RunnerLockMap(r) ==
  /\ Spawned(r)
  /\ runners[r].pc = "lock_map"
  /\ CanLock(map_lock)
  /\ IF map_poisoned
       THEN /\ runners' = SetRunner(r, "panicked")
            /\ UNCHANGED map_lock
       ELSE /\ runners' = SetRunner(r, "insert")
            /\ map_lock' = R(r)
  /\ Quiet
  /\ UNCHANGED <<guard_vars, task_status_map, map_poisoned, handlers, shuffle_store, hist_vars>>

\* variant: the error text is dropped
TerminalStatusLossy(result) ==
  IF result.tag = "Ok" THEN Completed(result.shuffle_id) ELSE Failed(<<result.err.variant>>)

\* lines 147, 159: TaskStatus::Completed(shuffle_id), or
\* TaskStatus::Failed(format!("{:?}", e))
TerminalStatus(result) ==
  IF result.tag = "Ok" THEN Completed(result.shuffle_id) ELSE Failed(DebugFmt(result.err))

\* variant: the map guard is dropped right after the insert, before the
\* counter is locked
RunnerInsertUnlocks(r) ==
  /\ Spawned(r)
  /\ runners[r].pc = "insert"
  /\ task_status_map' = [task_status_map EXCEPT ![runners[r].key] = TerminalStatus(runners[r].result)]
  /\ runners' = SetRunner(r, "lock_guard")
  /\ map_lock' = Free
  /\ Quiet
  /\ UNCHANGED <<guard_vars, map_poisoned, handlers, shuffle_store, hist_vars>>

RunnerInsert(r) ==
  /\ Spawned(r)
  /\ runners[r].pc = "insert"
  /\ task_status_map' = [task_status_map EXCEPT ![runners[r].key] = TerminalStatus(runners[r].result)]
  /\ runners' = SetRunner(r, "lock_guard")
  /\ Quiet
  /\ UNCHANGED <<guard_vars, map_lock, map_poisoned, handlers, shuffle_store, hist_vars>>

\* lines 148, 160: let mut counter = concurrent_tasks.lock().unwrap();
RunnerLockGuard(r) ==
  /\ Spawned(r)
  /\ runners[r].pc = "lock_guard"
  /\ CanLock(guard_lock)
  /\ IF guard_poisoned
       THEN /\ runners' = SetRunner(r, "panicked")
            /\ map_lock' = Free
            /\ map_poisoned' = TRUE
            /\ UNCHANGED guard_lock
       ELSE /\ runners' = SetRunner(r, "dec")
            /\ guard_lock' = R(r)
            /\ UNCHANGED <<map_lock, map_poisoned>>
  /\ Quiet
  /\ UNCHANGED <<max_concurrency, concurrency_level, guard_poisoned, dec_at_zero,
                 task_status_map, handlers, shuffle_store, hist_vars>>

\* lines 149-150, 161-162: counter.dec(); both guards are dropped as the
\* match arm ends
RunnerDec(r) ==
  /\ Spawned(r)
  /\ runners[r].pc = "dec"
  /\ \E out \in dec(concurrency_level) :
       /\ concurrency_level' = out.level
       /\ dec_at_zero' = (dec_at_zero \/ concurrency_level = 0)
       /\ guard_poisoned' = (guard_poisoned \/ out.panic)
       /\ map_poisoned' = (map_poisoned \/ out.panic)
       /\ runners' = IF out.panic
                       THEN SetRunner(r, "panicked")
                       ELSE [runners EXCEPT ![r].pc = "finished", ![r].decs = @ + 1]
  /\ guard_lock' = Free
  /\ map_lock' = Free
  /\ Quiet
  /\ UNCHANGED <<max_concurrency, task_status_map, handlers, shuffle_store, hist_vars>>

\* ------------------------------------------------------- specification
HandlerStep(h) ==
  \/ DecodeFail(h)
  \/ Execute(h)
  \/ FetchShuffle(h)
  \/ InteractiveQuery(h)
  \/ LockMap(h)
  \/ LockGuard(h)
  \/ Inc(h)
  \/ Insert(h)
  \/ Spawn(h)
  \/ Started(h)
  \/ Poll(h)

RunnerStep(r) ==
  \/ DoTaskOk(r)
  \/ DoTaskErr(r)
  \/ DoTaskPanic(r)
  \/ RunnerLockMap(r)
  \/ RunnerInsert(r)
  \/ RunnerLockGuard(r)
  \/ RunnerDec(r)

Next ==
  \/ \E h \in Handlers : HandlerStep(h)
  \/ \E r \in RunnerIds : RunnerStep(r)

Spec == Init /\ [][Next]_vars

\* The whole FlightService: do_get and its runners together with the methods
\* that share no state with them.
OtherMethod(h) ==
  \/ GetFlightInfo(h)
  \/ Handshake(h)
  \/ ListFlights(h)
  \/ DoPut(h)
  \/ DoAction(h)
  \/ ListActions(h)
  \/ DoExchange(h)

ServiceNext ==
  \/ Next
  \/ \E h \in Handlers : OtherMethod(h)

ServiceSpec == Init /\ [][ServiceNext]_vars

\* Scheduling: a request past decoding keeps running on its worker thread and
\* a handler blocked in Mutex::lock gets the mutex in the end; a runner that
\* can take a step of its cleanup for long enough takes it.  Nothing is
\* assumed about do_task returning, nor about new requests arriving.
HandlerProgress(h) ==
  \/ LockMap(h)
  \/ LockGuard(h)
  \/ Inc(h)
  \/ Insert(h)
  \/ Spawn(h)
  \/ Started(h)
  \/ Poll(h)

RunnerCleanup(r) ==
  \/ RunnerLockMap(r)
  \/ RunnerInsert(r)
  \/ RunnerLockGuard(r)
  \/ RunnerDec(r)

FairSpec ==
  /\ Spec
  /\ \A h \in Handlers : SF_vars(HandlerProgress(h))
  /\ WF_vars(\E r \in RunnerIds : RunnerCleanup(r))

\* Scheduling when do_task is assumed to return: besides the above, a runner
\* blocked in Mutex::lock gets the mutex in the end, and a do_task that can
\* return does return (as Ok or as Err).
DoTaskReturns(r) == DoTaskOk(r) \/ DoTaskErr(r)

LiveSpec ==
  /\ Spec
  /\ \A h \in Handlers : SF_vars(HandlerProgress(h))
  /\ SF_vars(\E r \in RunnerIds : RunnerCleanup(r))
  /\ WF_vars(\E r \in RunnerIds : DoTaskReturns(r))

TypeOK ==
  /\ max_concurrency \in 0..MaxLimit
  /\ concurrency_level \in 0..(UsizeModulus - 1)
  /\ map_lock \in {Free} \cup {H(h) : h \in Handlers} \cup {R(r) : r \in DOMAIN runners}
  /\ guard_lock \in {Free} \cup {H(h) : h \in Handlers} \cup {R(r) : r \in DOMAIN runners}
  /\ \A k \in Keys : task_status_map[k].tag \in {"None", "Running", "Completed", "Failed"}
  /\ \A h \in Handlers : handlers[h].pc \in {"idle", "lock_map", "lock_guard", "inc", "insert",
         "spawn", "started", "poll"}
  /\ \A r \in DOMAIN runners : runners[r].pc \in {"do_task", "lock_map", "insert", "lock_guard",
         "dec", "finished", "panicked"}
  /\ Len(runners) <= NumTasks

\* ------------------------------------------------------------- properties
IsExecuteAnswer == response.rpc = "do_get" /\ response.action.kind = "Execute"
RunnersOf(k) == {r \in DOMAIN runners : runners[r].key = k}
FinishedRunners == {r \in DOMAIN runners : runners[r].pc = "finished"}
\* handlers on the None arm of match map.get(&key)
Admitting(h) == handlers[h].pc \in {"lock_guard", "inc", "insert", "spawn", "started"}

\* C1: in every reachable state 0 <= concurrency_level <= max_concurrency,
\* and dec() has never been executed with concurrency_level = 0.
C1_GuardWithinBounds ==
  /\ 0 <= concurrency_level
  /\ concurrency_level <= max_concurrency
  /\ ~dec_at_zero

\* the guard is back at its limit after a release has happened
C1_Witness ==
  /\ max_concurrency >= 1
  /\ concurrency_level = max_concurrency
  /\ FinishedRunners # {}

\* C2: an Execute for an absent key while the guard is at its limit is
\* answered resource-exhausted; from the lookup to the answer the map, the
\* guard count and the set of runners do not change, the key stays absent
\* with no runner, and the other keys keep their status.
C2_RejectedAnswer ==
  response.code = "ResourceExhausted" =>
    /\ IsExecuteAnswer
    /\ response.seen = NoStatus
    /\ ~response.admitted
    /\ task_status_map[response.action.key] = NoStatus
    /\ RunnersOf(response.action.key) = {}
    /\ concurrency_level = max_concurrency

C2_RejectionStep ==
  \A h \in Handlers :
    (handlers[h].pc \in {"lock_guard", "inc"} /\ concurrency_level = max_concurrency) =>
      /\ task_status_map' = task_status_map
      /\ concurrency_level' = concurrency_level
      /\ Len(runners') = Len(runners)
      /\ inc_count' = inc_count
      /\ insert_count' = insert_count
      /\ handlers'[h].pc \in {"lock_guard", "inc", "idle"}
      /\ handlers'[h].pc = "idle" =>
           /\ response'.code = "ResourceExhausted"
           /\ response'.action = handlers[h].action

\* C2: the rejected answer leaves the key absent and the guard at its limit,
\* and no step between the lookup and that answer changes map, guard or runners.
C2_RejectMutatesNothing == [](C2_RejectedAnswer) /\ [][C2_RejectionStep]_vars

\* with limit 1, one key is rejected while another key is still Running
C2_Witness ==
  /\ response.code = "ResourceExhausted"
  /\ max_concurrency = 1
  /\ \E k \in Keys : k # response.action.key /\ task_status_map[k] = Running

\* C3: per key the guard is incremented at most once, Running is inserted
\* at most once and at most one runner is spawned; a request on the None
\* arm for a key is the only admission of that key, so every other request
\* for the key reads Running or a terminal status.
C3_AdmittedOnce ==
  /\ \A k \in Keys :
       /\ inc_count[k] <= 1
       /\ insert_count[k] <= 1
       /\ Cardinality(RunnersOf(k)) <= 1
  /\ \A h \in Handlers :
       Admitting(h) =>
         LET k == handlers[h].action.key IN
         /\ \A g \in Handlers : (g # h /\ Admitting(g)) => handlers[g].action.key # k
         /\ handlers[h].pc \in {"lock_guard", "inc"} => inc_count[k] = 0
         /\ handlers[h].pc \in {"lock_guard", "inc", "insert"} => insert_count[k] = 0
         /\ handlers[h].pc \in {"lock_guard", "inc", "insert", "spawn"} => RunnersOf(k) = {}
  /\ (IsExecuteAnswer /\ response.seen = NoStatus /\ response.code # "Panic") =>
       \/ response.admitted /\ insert_count[response.action.key] = 1
       \/ response.code = "ResourceExhausted" /\ insert_count[response.action.key] = 0

\* two requests for one new key are in flight: one admits it, the other
\* waits for the map
C3_Witness ==
  \E h, g \in Handlers :
    /\ h # g
    /\ handlers[h].pc = "spawn"
    /\ handlers[g].pc = "lock_map"
    /\ handlers[g].action = handlers[h].action

\* C4: a key's status only moves absent -> Running -> Completed | Failed and
\* a terminal status never changes; the status a poll answers from is the
\* key's status at the moment of the answer, so no poller sees a regression.
Forward(old, new) ==
  \/ new = old
  \/ old = NoStatus /\ new = Running
  \/ old = Running /\ new.tag \in {"Completed", "Failed"}

C4_StatusStep == \A k \in Keys : Forward(task_status_map[k], task_status_map'[k])

C4_PollSeesCurrent ==
  (IsExecuteAnswer /\ response.code # "Panic") =>
    IF response.seen = NoStatus
      THEN task_status_map[response.action.key] =
             (IF response.admitted THEN Running ELSE NoStatus)
      ELSE task_status_map[response.action.key] = response.seen

\* C4: every step moves each key's status forward or not at all, and every
\* answer reflects the status current when it is given.
C4_Monotonic == [](C4_PollSeesCurrent) /\ [][C4_StatusStep]_vars

\* a poll answers from a terminal status of a key that ran
C4_Witness ==
  /\ IsExecuteAnswer
  /\ response.seen.tag \in {"Completed", "Failed"}
  /\ task_status_map[response.action.key] = response.seen

\* C5: on every exit path of a runner (do_task Ok, Err, panic) the guard is
\* released exactly once and a terminal status is written: no runner has
\* ended while its key is still Running or its slot still counted.
C5_RunnerExitCleansUp ==
  \A r \in DOMAIN runners :
    runners[r].pc \in {"finished", "panicked"} =>
      /\ task_status_map[runners[r].key].tag \in {"Completed", "Failed"}
      /\ runners[r].decs = 1

\* C6: when do_task returns Err(e) the entry becomes Failed(text of e), the
\* guard is decremented exactly once for the task, and every later poll of
\* the key answers aborted with exactly the stored reason, running nothing.
C6_FailedEntry ==
  /\ \A r \in DOMAIN runners :
       runners[r].result.tag = "Err" =>
         /\ runners[r].decs = (IF runners[r].pc = "finished" THEN 1 ELSE 0)
         /\ runners[r].pc \in {"lock_guard", "dec", "finished"} =>
              task_status_map[runners[r].key] = Failed(DebugFmt(runners[r].result.err))
  /\ \A k \in Keys :
       task_status_map[k].tag = "Failed" =>
         /\ Cardinality(RunnersOf(k)) = 1
         /\ \A r \in RunnersOf(k) : runners[r].result.tag = "Err"
  /\ (IsExecuteAnswer /\ response.seen.tag = "Failed") =>
       /\ response.code = "Aborted"
       /\ response.msg = response.seen.arg
       /\ task_status_map[response.action.key] = Failed(response.msg)
  /\ response.code = "Aborted" => (IsExecuteAnswer /\ response.seen.tag = "Failed")

C6_FailedPollStep ==
  \A h \in Handlers :
    (handlers[h].pc = "poll" /\ handlers[h].seen.tag = "Failed" /\ handlers'[h].pc # "poll") =>
      /\ runners' = runners
      /\ task_status_map' = task_status_map
      /\ concurrency_level' = concurrency_level
      /\ shuffle_store' = shuffle_store

\* C6: a failed task's entry is Failed(text of the error) with one dec, and a
\* poll of it answers aborted with that text and changes nothing.
C6_FailureReported == [](C6_FailedEntry) /\ [][C6_FailedPollStep]_vars

\* a poll answers aborted for a key whose runner failed and has released
C6_Witness ==
  /\ response.code = "Aborted"
  /\ \E r \in RunnersOf(response.action.key) :
       /\ runners[r].pc = "finished"
       /\ runners[r].decs = 1
       /\ response.msg = DebugFmt(runners[r].result.err)

\* C7: a poll of a Completed(handle) key answers the result stored under the
\* handle: its schema message, then one message per stored batch, in order.
C7_AnswersStoredResult ==
  (IsExecuteAnswer /\ response.seen.tag = "Completed") =>
    /\ response.code = "Ok"
    /\ response.stream = flights(shuffle_store[response.seen.arg])

\* C7 as the code has it: a poll of a Completed key answers one message, the
\* schema message of the one-field schema (shuffle_id: Utf8), and no batch
\* message, whatever is stored under the handle.
C7_AnswersEmptyStream ==
  /\ (IsExecuteAnswer /\ response.seen.tag = "Completed") =>
       /\ response.code = "Ok"
       /\ response.stream = <<FlightDataFromSchema(ShuffleIdSchema)>>
  /\ (IsExecuteAnswer /\ response.code = "Ok") => response.seen.tag = "Completed"

\* a Completed key whose stored result has another schema and a batch is polled
C7_Witness ==
  /\ IsExecuteAnswer
  /\ response.seen.tag = "Completed"
  /\ shuffle_store[response.seen.arg].schema = TaskSchema
  /\ Len(shuffle_store[response.seen.arg].data) >= 1

\* C8: all polls of a Completed key answer the identical stream.
C8_PollIdempotent ==
  \A k \in Keys :
    \A i, j \in DOMAIN delivered[k] : delivered[k][i] = delivered[k][j]

\* a key was polled repeatedly while another key completed as well
C8_Witness ==
  \E k, other \in Keys :
    /\ k # other
    /\ Len(delivered[k]) >= 2
    /\ task_status_map[other].tag = "Completed"

\* C9: an admission succeeds exactly when fewer than max_concurrency admitted
\* tasks are unreleased: N admissions succeed from the empty guard, the next
\* one fails before any release, and one release makes room for one more.
InUse == Len(runners) - Cardinality(FinishedRunners)

C9_Decided ==
  /\ response.admitted => (1 <= InUse /\ InUse <= max_concurrency)
  /\ response.code = "ResourceExhausted" => InUse = max_concurrency

C9_DecisionStep ==
  \A h \in Handlers :
    (handlers[h].pc = "inc" /\ handlers'[h].pc # "inc") =>
      IF InUse < max_concurrency
        THEN handlers'[h].pc = "insert"
        ELSE handlers'[h].pc = "idle" /\ response'.code = "ResourceExhausted"

\* C9: every admission decision is "accepted" exactly when fewer than
\* max_concurrency admitted tasks are unreleased, "resource-exhausted" otherwise.
C9_AdmitsUpToLimit == [](C9_Decided) /\ [][C9_DecisionStep]_vars

\* max_concurrency admissions, one release, and one more admission accepted
C9_Witness ==
  /\ response.admitted
  /\ max_concurrency >= 1
  /\ Cardinality(FinishedRunners) = 1
  /\ Len(runners) = max_concurrency + 1

\* C10: every Execute request is answered whether or not do_task ever
\* returns; the answer to a first admission is the in-progress status, given
\* while the key is Running, and a terminal status is only ever reported to
\* a request that found the key already present.
C10_AdmissionAnswer ==
  /\ response.admitted =>
       /\ IsExecuteAnswer
       /\ response.code = "AlreadyExists"
       /\ task_status_map[response.action.key] = Running
  /\ (IsExecuteAnswer /\ response.code \in {"Ok", "Aborted"}) =>
       /\ ~response.admitted
       /\ response.seen.tag \in {"Completed", "Failed"}

\* C10: every request past decoding is answered without any assumption on
\* do_task, and the admitting answer is in-progress while the key is Running.
C10_NeverWaits ==
  /\ [](C10_AdmissionAnswer)
  /\ \A h \in Handlers : (handlers[h].pc # "idle") ~> (handlers[h].pc = "idle")

\* the admitting request is answered while its task is still inside do_task
C10_Witness ==
  /\ response.admitted
  /\ \E r \in RunnersOf(response.action.key) : runners[r].pc = "do_task"

\* C11: under fair scheduling and with do_task returning, a Running key
\* becomes Completed or Failed and its runner releases its guard slot once;
\* when every admitted task has finished the guard count is 0.
DoTaskNeverReturned(r) == runners[r].pc = "panicked" /\ runners[r].result.tag = "None"

AllTasksFinished ==
  /\ runners # <<>>
  /\ \A r \in DOMAIN runners : runners[r].pc = "finished"
  /\ \A h \in Handlers : handlers[h].pc \notin {"insert", "spawn"}

C11_CountBackToZero == AllTasksFinished => concurrency_level = 0

C11_EventuallyTerminal ==
  /\ [](C11_CountBackToZero)
  /\ \A k \in Keys :
       (task_status_map[k] = Running) ~>
         \E r \in RunnersOf(k) :
           \/ DoTaskNeverReturned(r)
           \/ /\ task_status_map[k] = TerminalStatus(runners[r].result)
              /\ runners[r].pc = "finished"
              /\ runners[r].decs = 1

\* two tasks were admitted and both have finished, one Completed and one
\* Failed, and the guard is empty again
C11_Witness ==
  /\ Len(runners) = 2
  /\ AllTasksFinished
  /\ concurrency_level = 0
  /\ \E k, j \in Keys :
       task_status_map[k].tag = "Completed" /\ task_status_map[j].tag = "Failed"

\* a do_get request whose ticket did not decode has been answered
IsDecodeFailure ==
  response.rpc = "do_get" /\ response.action = NoAction /\ response.code # "None"

\* C12: a do_get request whose ticket cannot be decoded is answered with an
\* invalid-argument error, in the step that decodes it, and that step changes
\* neither the map nor the guard and spawns no runner.
C12_DecodeFailureStep ==
  IsDecodeFailure' =>
    /\ response'.code = "InvalidArgument"
    /\ UNCHANGED <<guard_vars, map_vars, runners, shuffle_store, hist_vars>>

C12_DecodeFailureInvalidArgument == [][C12_DecodeFailureStep]_vars

\* C13: a FetchShuffle for an id under which the executor stores no result
\* is answered with a not-found error.
IsFetchAnswer == response.rpc = "do_get" /\ response.action.kind = "FetchShuffle"

C13_MissingShuffleNotFound ==
  (IsFetchAnswer /\ shuffle_store[ShuffleIdOf(response.action.key)] = NoPartition) =>
    response.code = "NotFound"

\* C14: every unimplemented path answers with the one 'not implemented'
\* status: handshake, list_flights, list_actions and do_exchange always,
\* do_put once its request stream was read without a transport failure,
\* do_action once its body decoded, and get_flight_info once the three
\* planning stages have built the job; no such request ends in a panic or
\* with another status.
C14_NotImplementedSignal ==
  /\ response.rpc \in {"handshake", "list_flights", "list_actions", "do_exchange"} =>
       response.code = "Unimplemented"
  /\ (response.rpc = "do_put" /\ response.code # StreamFailure.code) =>
       response.code = "Unimplemented"
  /\ (response.rpc = "do_action" /\ response.code # to_tonic_err(DecodeError).code) =>
       response.code = "Unimplemented"
  /\ (response.rpc = "get_flight_info" /\ response.action.kind = "InteractiveQuery"
        /\ response.code # to_tonic_err(PlanError).code) =>
       response.code = "Unimplemented"

\* C15: whenever the map mutex is free, and whenever an Execute handler
\* holds it and looks at the map or the guard, the guard count equals the
\* number of Running keys; a handler that read a terminal status for a key
\* finds that key's runner finished and its slot released.
RunningKeys == {k \in Keys : task_status_map[k] = Running}

C15_SingleCleanup ==
  /\ map_lock = Free => concurrency_level = Cardinality(RunningKeys)
  /\ \A h \in Handlers :
       map_lock = H(h) =>
         /\ handlers[h].pc \in {"lock_guard", "inc", "spawn", "started", "poll"} =>
              concurrency_level = Cardinality(RunningKeys)
         /\ handlers[h].pc = "insert" =>
              concurrency_level = Cardinality(RunningKeys) + 1
         /\ (handlers[h].pc = "poll" /\ handlers[h].seen.tag \in {"Completed", "Failed"}) =>
              \A r \in RunnersOf(handlers[h].action.key) :
                runners[r].pc = "finished" /\ runners[r].decs = 1

\* a runner has written its terminal status and not yet released its slot,
\* while a request for the same key waits for the map mutex
C15_Witness ==
  \E r \in DOMAIN runners, h \in Handlers :
    /\ runners[r].pc \in {"lock_guard", "dec"}
    /\ task_status_map[runners[r].key].tag \in {"Completed", "Failed"}
    /\ concurrency_level = Cardinality(RunningKeys) + 1
    /\ handlers[h].pc = "lock_map"
    /\ handlers[h].action.key = runners[r].key

\* C16: the map mutex is always taken before the guard mutex: whoever holds
\* the guard mutex holds the map mutex too, a holder of the map mutex is
\* never blocked (the guard mutex it may want is free), and so in every
\* state the holder of a mutex, or else every thread waiting for one, can
\* take its next step: no handler and runner wait on each other.
HandlerHolds(h) == handlers[h].pc \in {"lock_guard", "inc", "insert", "spawn", "started", "poll"}
RunnerHolds(r) == runners[r].pc \in {"insert", "lock_guard", "dec"}

C16_NoDeadlock ==
  /\ guard_lock # Free => map_lock = guard_lock
  /\ \A h \in Handlers :
       /\ HandlerHolds(h) <=> map_lock = H(h)
       /\ handlers[h].pc = "inc" <=> guard_lock = H(h)
       /\ handlers[h].pc = "lock_guard" => guard_lock = Free
       /\ handlers[h].pc # "idle" =>
            IF map_lock \in {Free, H(h)}
              THEN ENABLED HandlerProgress(h)
              ELSE ENABLED (\E g \in Handlers \ {h} : HandlerProgress(g))
                     \/ ENABLED (\E r \in RunnerIds : RunnerCleanup(r))
  /\ \A r \in DOMAIN runners :
       /\ RunnerHolds(r) <=> map_lock = R(r)
       /\ runners[r].pc = "dec" <=> guard_lock = R(r)
       /\ runners[r].pc = "lock_guard" => guard_lock = Free
       /\ runners[r].pc \in {"lock_map", "insert", "lock_guard", "dec"} =>
            IF map_lock \in {Free, R(r)}
              THEN ENABLED RunnerCleanup(r)
              ELSE ENABLED (\E h \in Handlers : HandlerProgress(h))
                     \/ ENABLED (\E q \in RunnerIds \ {r} : RunnerCleanup(q))

\* a runner holds both mutexes while two requests and another runner wait
\* for the map mutex
C16_Witness ==
  \E r, q \in DOMAIN runners :
    /\ runners[r].pc = "dec"
    /\ guard_lock = R(r)
    /\ map_lock = R(r)
    /\ runners[q].pc = "lock_map"
    /\ \A h \in Handlers : handlers[h].pc = "lock_map"

\* C17: an Execute request that finds its key in the map is a pure read.
\* From the lookup to the answer no key's status changes, the guard count
\* stays, and no runner is spawned; the answer depends on the status read
\* alone: Running -> already-exists (the code of a first admission),
\* Failed(reason) -> aborted with the reason, Completed -> Ok with a stream
\* made of a schema message followed by batch messages only.
IsPollAnswer == IsExecuteAnswer /\ response.seen # NoStatus

C17_PollAnswer ==
  /\ IsPollAnswer =>
       /\ ~response.admitted
       /\ response.seen.tag = "Running" =>
            /\ response.code = "AlreadyExists"
            /\ response.stream = <<>>
       /\ response.seen.tag = "Failed" =>
            /\ response.code = "Aborted"
            /\ response.msg = response.seen.arg
            /\ response.stream = <<>>
       /\ response.seen.tag = "Completed" =>
            /\ response.code = "Ok"
            /\ Len(response.stream) >= 1
            /\ response.stream[1].header = "Schema"
            /\ \A i \in 2..Len(response.stream) : response.stream[i].header = "RecordBatch"
  /\ response.admitted => response.code = "AlreadyExists"

C17_PollStep ==
  \A h \in Handlers :
    /\ (handlers[h].pc = "lock_map" /\ handlers'[h].pc = "poll") =>
         /\ handlers'[h].seen = task_status_map[handlers[h].action.key]
         /\ UNCHANGED <<task_status_map, concurrency_level, runners, shuffle_store, guard_lock>>
    /\ handlers[h].pc = "poll" =>
         /\ UNCHANGED <<task_status_map, concurrency_level, inc_count, insert_count>>
         /\ Len(runners') = Len(runners)
         /\ handlers'[h].pc \in {"poll", "idle"}
         /\ handlers'[h].pc = "idle" =>
              /\ UNCHANGED <<runners, shuffle_store, guard_lock>>
              /\ response'.action = handlers[h].action
              /\ response'.seen = handlers[h].seen

C17_PollIsPureRead == [](C17_PollAnswer) /\ [][C17_PollStep]_vars

\* a Running key is polled while the guard is full and another key has
\* reached a terminal status
C17_Witness ==
  /\ IsPollAnswer
  /\ response.seen = Running
  /\ concurrency_level = max_concurrency
  /\ \E k \in Keys : task_status_map[k].tag \in {"Completed", "Failed"}

\* C18: tasks of different keys complete independently of the order of
\* their admission.  A task inside do_task can complete whatever the tasks
\* admitted before it are doing; when a task admitted later has finished
\* while one admitted earlier has not, the later key shows its own terminal
\* status, the earlier key is still Running and can still complete; and a
\* runner's write changes the entry of its own key only, to the status of
\* its own result.
C18_OutOfOrder ==
  /\ \A r \in DOMAIN runners : runners[r].pc = "do_task" => ENABLED DoTaskOk(r)
  /\ \A r, q \in DOMAIN runners :
       (r < q /\ runners[q].pc = "finished" /\ runners[r].pc \in {"do_task", "lock_map"}) =>
         /\ runners[r].key # runners[q].key
         /\ task_status_map[runners[q].key] = TerminalStatus(runners[q].result)
         /\ task_status_map[runners[r].key] = Running
         /\ ENABLED (DoTaskOk(r) \/ \E p \in RunnerIds : RunnerCleanup(p)
                       \/ \E h \in Handlers : HandlerProgress(h))

C18_RunnerWrite ==
  \A k \in Keys :
    (task_status_map'[k] # task_status_map[k] /\ task_status_map'[k] # Running) =>
      \E r \in RunnersOf(k) :
        /\ runners[r].pc = "insert"
        /\ task_status_map'[k] = TerminalStatus(runners[r].result)
        /\ \A j \in Keys \ {k} : task_status_map'[j] = task_status_map[j]

C18_OrderIndependent == [](C18_OutOfOrder) /\ [][C18_RunnerWrite]_vars

\* with limit 2, key A was admitted before key B; a poll finds B Completed
\* while A is still Running, its task inside do_task
C18_Witness ==
  /\ max_concurrency >= 2
  /\ Len(runners) >= 2
  /\ IsPollAnswer
  /\ response.code = "Ok"
  /\ response.action.key = runners[2].key
  /\ runners[2].pc = "finished"
  /\ runners[1].pc = "do_task"
  /\ task_status_map[runners[1].key] = Running

\* C19: FetchShuffle and InteractiveQuery bypass the admission machinery.
\* Their step leaves the status map, the guard count, both mutexes and the
\* runners as they were; they are answered in any state, also while another
\* thread holds the map mutex and while the guard is at its limit; the
\* answer is Ok or the executor's error, never resource-exhausted and never
\* already-exists, and a fetch succeeds exactly when the executor stores a
\* result under the id, whatever the status map says.
IsBypassAnswer ==
  response.rpc = "do_get" /\ response.action.kind \in {"FetchShuffle", "InteractiveQuery"}

C19_BypassAnswer ==
  /\ IsBypassAnswer =>
       /\ response.code \in {"Ok", "Internal"}
       /\ ~response.admitted
       /\ response.seen = NoStatus
  /\ IsFetchAnswer =>
       IF shuffle_store[ShuffleIdOf(response.action.key)] = NoPartition
         THEN response.code # "Ok"
         ELSE /\ response.code = "Ok"
              /\ response.stream = flights(shuffle_store[ShuffleIdOf(response.action.key)])
  /\ \A h \in Handlers :
       handlers[h].pc = "idle" => (ENABLED FetchShuffle(h) /\ ENABLED InteractiveQuery(h))

C19_BypassStep ==
  IsBypassAnswer' =>
    UNCHANGED <<task_status_map, map_lock, map_poisoned, max_concurrency, concurrency_level,
                guard_lock, guard_poisoned, runners, shuffle_store, inc_count, insert_count>>

C19_BypassesAdmission == [](C19_BypassAnswer) /\ [][C19_BypassStep]_vars

\* a fetch is answered Ok for a key whose status is still Running, while
\* another request holds the map mutex and the guard is at its limit
C19_Witness ==
  /\ IsFetchAnswer
  /\ response.code = "Ok"
  /\ task_status_map[response.action.key] = Running
  /\ concurrency_level = max_concurrency
  /\ \E h \in Handlers : map_lock = H(h)

====
